---- MODULE Spec2Model ----
(***************************************************************************)
(* Model of src/bot/root.controller.ts: RootController wires a grammY bot  *)
(* (inbound filter + @grammyjs/ratelimiter, outbound apiThrottler +        *)
(* autoRetry transformers, bot.catch error handler), registers the feature *)
(* controllers and starts the @grammyjs/runner update loop.                *)
(***************************************************************************)
EXTENDS Integers, Sequences, FiniteSets, TLC

VARIABLES
    pc,            \* position inside register()/run(): see Lifecycle values
    middleware,    \* inbound stages installed on the bot, in installation order
    transformers,  \* api.config transformers, in installation order
    errorHandler,  \* "default" until bot.catch installs "handleError"
    registered,    \* controller register() calls made so far, in order, and
                   \* whether each threw
    registerError, \* error that escaped RootController.register(), or None
    loop,          \* "idle", "running" (runner started), "stopped"
    healthLog,     \* log line written by run() after isRunning(): None/"success"/"error"
    me,            \* this._me: None or the identity record
    runResult,     \* None, "handle" (run() resolved) or "rejected"
    now,           \* clock, in the milliseconds timeFrame is given in
    hits,          \* MemoryStore.hits: key -> counter, 0 when the key is absent
    timer,         \* key -> TRUE while the reset timer of the key is pending
    winStart,      \* key -> time the current (or most recent) window started
    admits,        \* key -> times, less than timeFrame ago, of admitted eligible updates
    win,           \* key -> eligible updates seen / admitted in the latest window
    nUpdates,      \* number of updates processed so far
    hadError,      \* TRUE once some update raised an error
    last,          \* what happened to the most recently processed update
    lastCall,      \* the most recent outgoing API call
    cache,         \* container cache: singleton name -> instance, 0 when none
    built,         \* singleton name -> instances constructed so far
    resolutions,   \* singleton name -> resolutions that returned an instance
    lastResolve,   \* the most recent resolution: name, outcome, instance
    getMeCalls,    \* bot.api.getMe() calls issued by run() so far
    tasks,         \* the updates in flight, one slot each, and how far each got
    probe          \* two contexts and the rate-limit keys computed for them

vars == <<pc, middleware, transformers, errorHandler, registered, registerError,
          loop, healthLog, me, runResult, now, hits, timer, winStart, admits,
          win, nUpdates, hadError, last, lastCall, cache, built, resolutions,
          lastResolve, getMeCalls, tasks, probe>>

lifecycleVars == <<pc, middleware, transformers, errorHandler, registered,
                   registerError, loop, healthLog, me, runResult>>
containerVars == <<cache, built, resolutions, lastResolve>>
runVars == <<getMeCalls>>
sideVars == <<tasks, probe>>
inboundVars ==
    <<now, hits, timer, winStart, admits, win, nUpdates, hadError, last>>

None == "none"

-----------------------------------------------------------------------------
(* Program constants *)

timeFrame == 2000
limit == 5
maxRetryAttempts == 2
maxDelaySeconds == 40

(* Bounds of the model *)

MaxUpdates == 7
TimeStep == 1000
MaxTime == 3000
MaxScript == 3
MaxEarlyUpdates == 2
MaxResolves == 4
MaxInFlight == 3
MaxFlights == 7
MaxKeyedUpdates == 8

-----------------------------------------------------------------------------
(* Outbound pipeline: api.config.use(apiThrottler()); api.config.use(autoRetry) *)

\* Responses of the external API to one attempt.  A flood response carries
\* parameters.retry_after (seconds).
RetryAfters == {20, maxDelaySeconds, maxDelaySeconds + 1}
Responses ==
    {[ok |-> TRUE, retry_after |-> 0], [ok |-> FALSE, retry_after |-> 0]}
    \cup {[ok |-> FALSE, retry_after |-> r] : r \in RetryAfters}

\* What the external API answers to the successive attempts of one call.
Scripts == [1..MaxScript -> Responses]

Methods == {"deleteWebhook", "getMe", "sendMessage"}

\* autoRetry classifies a failed response as retryable when it carries a
\* numeric retry_after not above maxDelaySeconds.
RetryableAny(res) == ~res.ok
RetryableUncapped(res) == ~res.ok /\ res.retry_after > 0
Retryable(res) ==
    ~res.ok /\ res.retry_after > 0 /\ res.retry_after <= maxDelaySeconds

\* The raw call: one attempt reaches the external API.  st.pos counts the
\* attempts, st.attempts records for each whether it came through the throttler.
RawCall(script, st, throttled) ==
    [res |-> script[IF st.pos <= MaxScript THEN st.pos ELSE MaxScript],
     st  |-> [pos      |-> st.pos + 1,
              attempts |-> Append(st.attempts, throttled),
              waits    |-> st.waits]]

RemainingOneMore == maxRetryAttempts + 1
Remaining == maxRetryAttempts

RECURSIVE Layer(_, _, _, _, _)
RECURSIVE AutoRetryLoop(_, _, _, _, _, _)

\* autoRetry: while (!result.ok && remainingAttempts-- > 0) { if retryable:
\* pause(retry_after), call prev again; else return result }
\* The repeated call starts at this layer: it passes the transformers below
\* it once more and none of those above it.
AutoRetryLoop(stack, i, script, r, remaining, throttled) ==
    IF r.res.ok \/ remaining <= 0 THEN r
    ELSE IF ~Retryable(r.res) THEN r
    ELSE LET waited == [r.st EXCEPT !.waits = Append(@, r.res.retry_after)]
             again  == Layer(stack, i - 1, script, waited, FALSE)
         IN AutoRetryLoop(stack, i, script, again, remaining - 1, throttled)

\* Layer i of the transformer chain; layer 0 is the raw call.  A transformer
\* installed later wraps the ones installed before it.
Layer(stack, i, script, st, throttled) ==
    IF i = 0 THEN RawCall(script, st, throttled)
    ELSE IF stack[i] = "apiThrottler"
        THEN Layer(stack, i - 1, script, st, TRUE)
    ELSE IF stack[i] = "autoRetry"
        THEN AutoRetryLoop(stack, i, script,
                           Layer(stack, i - 1, script, st, throttled),
                           Remaining, throttled)
    ELSE Layer(stack, i - 1, script, st, throttled)

RECURSIVE Sum(_)
Sum(s) == IF s = <<>> THEN 0 ELSE Head(s) + Sum(Tail(s))

\* bot.api.<method>(...): the call goes through the transformers installed
\* at the moment it is issued.
CallApi(stack, method, script) ==
    LET r == Layer(stack, Len(stack), script,
                   [pos |-> 1, attempts |-> <<>>, waits |-> <<>>], FALSE)
    IN [method   |-> method,
        script   |-> script,
        stack    |-> stack,
        attempts |-> r.st.attempts,
        waits    |-> r.st.waits,
        ok       |-> r.res.ok,
        res      |-> r.res]

NoCall == [method |-> None, script |-> <<>>, stack |-> <<>>, attempts |-> <<>>,
           waits |-> <<>>, ok |-> TRUE, res |-> [ok |-> TRUE, retry_after |-> 0]]

-----------------------------------------------------------------------------
(* Inbound pipeline: bot.filter(pred).use(limit({...})) *)

\* Strings are sequences of characters, so that startsWith, toString and join
\* are computed.
Digit(d) ==
    CASE d = 0 -> "0" [] d = 1 -> "1" [] d = 2 -> "2" [] d = 3 -> "3"
      [] d = 4 -> "4" [] d = 5 -> "5" [] d = 6 -> "6" [] d = 7 -> "7"
      [] d = 8 -> "8" [] OTHER -> "9"

RECURSIVE NatToString(_)
NatToString(n) ==
    IF n < 10 THEN <<Digit(n)>>
    ELSE Append(NatToString(n \div 10), Digit(n % 10))

\* Number.prototype.toString()
NumberToString(n) == IF n < 0 THEN <<"-">> \o NatToString(-n) ELSE NatToString(n)

\* x?.id.toString() inside Array.prototype.join: undefined joins as ''.
IdPart(x) == IF x.def THEN NumberToString(x.id) ELSE <<>>

Separator == <<"#", "#", "#">>

\* keyGenerator: [ctx.from?.id.toString(), ctx.chat?.id.toString()].join('###')
keyGeneratorNoSeparator(ctx) == IdPart(ctx.from) \o IdPart(ctx.chat)
keyGenerator(ctx) == IdPart(ctx.from) \o Separator \o IdPart(ctx.chat)

\* Optional values: an absent user or chat, an absent string.
NoId == [def |-> FALSE, id |-> 0]
Id(n) == [def |-> TRUE, id |-> n]
NoStr == [def |-> FALSE, val |-> <<>>]
Str(s) == [def |-> TRUE, val |-> s]

\* s?.startsWith('/')
StartsWithSlash(s) == s.def /\ Len(s.val) > 0 /\ s.val[1] = "/"

Command == <<"/", "s">>
Plain == <<"h", "i">>

Msg(from, chat, text, replyText, entities) ==
    [from |-> from, chat |-> chat, text |-> text, replyText |-> replyText,
     data |-> NoStr, entities |-> entities]
Callback(from, chat, data) ==
    [from |-> from, chat |-> chat, text |-> NoStr, replyText |-> NoStr,
     data |-> data, entities |-> {}]

\* The updates of one (user, chat) pair: user 1 in chat 1.
Updates ==
    { Msg(Id(1), Id(1), Str(Plain), Str(Plain), {"mention"}),
      Msg(Id(1), Id(1), Str(Command), NoStr, {}),
      Msg(Id(1), Id(1), Str(Plain), Str(Command), {}),
      Msg(Id(1), Id(1), Str(Plain), NoStr, {"hashtag"}),
      Callback(Id(1), Id(1), Str(<<"x">>)) }

\* Updates of other senders: a callback query of user 1 that carries no chat
\* (inline message), with and without data.
OtherUpdates ==
    { Callback(Id(1), NoId, Str(<<"x">>)),
      Callback(Id(1), NoId, Str(<<>>)) }

Keys == {keyGenerator(u) : u \in Updates \cup OtherUpdates}

\* The four admission predicates of the filter, in the order of the source.
TextIsCommand(u) == StartsWithSlash(u.text)
ReplyIsCommand(u) == StartsWithSlash(u.replyText)
HasCallbackData(u) == u.data.def /\ u.data.val # <<>>
HasHashtag(u) == \E e \in u.entities : e = "hashtag"

FilterAnyText(u) ==
    u.text.def \/ ReplyIsCommand(u) \/ HasCallbackData(u) \/ HasHashtag(u)
Filter(u) ==
    TextIsCommand(u) \/ ReplyIsCommand(u) \/ HasCallbackData(u) \/ HasHashtag(u)

\* MemoryStore.increment: the counter of the key after this hit.
IncrementAdmittedOnly(h, k) == IF h[k] < limit THEN h[k] + 1 ELSE h[k]
Increment(h, k) == h[k] + 1

\* The limiter's decision for the hit count returned by the store:
\* next() while hits <= limit, onLimitExceeded on the first hit over the
\* limit (alwaysReply is not set), nothing for the later ones.
DecideOffByOne(n) ==
    IF n < limit THEN "next"
    ELSE IF n = limit THEN "exceeded"
    ELSE "dropped"
Decide(n) ==
    IF n <= limit THEN "next"
    ELSE IF n = limit + 1 THEN "exceeded"
    ELSE "dropped"

\* onLimitExceeded: one warning with sender and chat, then one ctx.reply.
onLimitExceededNoReply(ctx) ==
    [warn  |-> <<[message |-> "Limit exceeded", from |-> ctx.from,
                  chat |-> ctx.chat]>>,
     reply |-> <<>>]
onLimitExceeded(ctx) ==
    [warn  |-> <<[message |-> "Limit exceeded", from |-> ctx.from,
                  chat |-> ctx.chat]>>,
     reply |-> <<"Slow down please">>]

\* The reset timer of a key fired: the store forgets the key.
ResetNever(h, k) == h
Reset(h, k) == [h EXCEPT ![k] = 0]

FilterStage == [kind |-> "filter", sub |-> <<"limit">>]
HandlerStage(c) == [kind |-> "handler", sub |-> <<c>>]

\* The feature handlers installed on the bot after position i.
HandlersAfter(mw, i) ==
    {mw[j].sub[1] : j \in {j \in (i + 1)..Len(mw) : mw[j].kind = "handler"}}

\* One update through the middleware chain.  The filter stage runs its
\* sub-composer (the limiter) for the updates its predicate accepts and passes
\* the others straight on; the limiter calls next() or not.
RECURSIVE Walk(_, _, _, _)
Walk(mw, i, u, h) ==
    IF i > Len(mw) THEN
        [counted |-> FALSE, decision |-> "bypass", hits |-> h, delivered |-> {}]
    ELSE IF mw[i].kind = "filter" THEN
        IF Filter(u) THEN
            LET k == keyGenerator(u)
                n == Increment(h, k)
                d == Decide(n)
            IN [counted   |-> TRUE,
                decision  |-> d,
                hits      |-> [h EXCEPT ![k] = n],
                delivered |-> IF d = "next" THEN HandlersAfter(mw, i) ELSE {}]
        ELSE
            [counted |-> FALSE, decision |-> "bypass", hits |-> h,
             delivered |-> HandlersAfter(mw, i)]
    ELSE
        LET rest == Walk(mw, i + 1, u, h)
        IN [rest EXCEPT !.delivered = @ \cup {mw[i].sub[1]}]

\* RootController._handleError: logs err.message with the error, returns.
handleErrorRethrow(err) == [logged |-> FALSE, rethrown |-> TRUE]
handleError(err) == [logged |-> TRUE, rethrown |-> FALSE]

\* The handler bot.catch replaced: grammY's default logs and rethrows.
DefaultErrorHandler(err) == [logged |-> TRUE, rethrown |-> TRUE]

ErrorOutcome(handler, err) ==
    IF handler = "handleError" THEN handleError(err)
    ELSE DefaultErrorHandler(err)

-----------------------------------------------------------------------------
(* State machine *)

\* Declared order of the feature controllers in register().
ControllerOrder == <<"chatsController", "neuroController", "randomController">>

NoMe == [def |-> FALSE, id |-> 0, username |-> "", is_bot |-> FALSE]
Identity == [def |-> TRUE, id |-> 1, username |-> "bot", is_bot |-> TRUE]

NoWindow == [seen |-> 0, admitted |-> 0]

NoUpdate ==
    [seen |-> FALSE, update |-> Callback(NoId, NoId, NoStr),
     counted |-> FALSE, decision |-> "bypass", pre |-> 0,
     before |-> NoWindow, elapsed |-> -1,
     delivered |-> {}, warns |-> <<>>, replies |-> <<>>, error |-> None,
     errorLogged |-> FALSE]

ConstScript(r) == [i \in 1..MaxScript |-> r]

OkScript == ConstScript([ok |-> TRUE, retry_after |-> 0])

\* Answers of the external API used for the calls of register(), run() and
\* the rate-limit notice: success, permanent failure, persistent flood wait.
MainScripts ==
    {ConstScript(r) : r \in {[ok |-> TRUE, retry_after |-> 0],
                             [ok |-> FALSE, retry_after |-> 0],
                             [ok |-> FALSE, retry_after |-> 20]}}

\* An empty slot of the runner, and no keys computed yet.
NoTask == [st |-> "free", snap |-> 0, n |-> 0]
NoProbe == [a |-> Callback(NoId, NoId, NoStr), b |-> Callback(NoId, NoId, NoStr),
            ka |-> <<>>, kb |-> <<>>]

\* The class registrations of _scaffoldContainer.
Singletons == {"neuroController", "chatsController", "randomController"}

\* The lifetime _scaffoldContainer gives a class registration.
LifetimeTransient(n) == "transient"
Lifetime(n) == "singleton"

NoResolve == [name |-> None, ok |-> FALSE, instance |-> 0]

\* container.cradle.<n>: a singleton found in the cache is returned as it is;
\* otherwise the class is constructed (the constructor may throw, and then
\* nothing is cached) and a singleton is put in the cache.  Instances are
\* told apart by their serial number.
resolve(c, b, n, ctorThrows) ==
    IF Lifetime(n) = "singleton" /\ c[n] # 0
    THEN [cache |-> c, built |-> b,
          result |-> [name |-> n, ok |-> TRUE, instance |-> c[n]]]
    ELSE IF ctorThrows
    THEN [cache |-> c, built |-> b,
          result |-> [name |-> n, ok |-> FALSE, instance |-> 0]]
    ELSE LET id == b[n] + 1
         IN [cache  |-> IF Lifetime(n) = "singleton"
                        THEN [c EXCEPT ![n] = id] ELSE c,
             built  |-> [b EXCEPT ![n] = id],
             result |-> [name |-> n, ok |-> TRUE, instance |-> id]]

\* private fields of RootController right after construction
Init ==
    /\ pc = "new"
    /\ middleware = <<>>
    /\ transformers = <<>>
    /\ errorHandler = "default"
    /\ registered = <<>>
    /\ registerError = None
    /\ loop = "idle"
    /\ healthLog = None
    /\ me = NoMe
    /\ runResult = None
    /\ now = 0
    /\ hits = [k \in Keys |-> 0]
    /\ timer = [k \in Keys |-> FALSE]
    /\ winStart = [k \in Keys |-> -1]
    /\ admits = [k \in Keys |-> <<>>]
    /\ win = [k \in Keys |-> NoWindow]
    /\ nUpdates = 0
    /\ hadError = FALSE
    /\ last = NoUpdate
    /\ lastCall = NoCall
    /\ cache = [n \in Singletons |-> 0]
    /\ built = [n \in Singletons |-> 0]
    /\ resolutions = [n \in Singletons |-> 0]
    /\ lastResolve = NoResolve
    /\ getMeCalls = 0
    /\ tasks = [i \in 1..MaxInFlight |-> NoTask]
    /\ probe = NoProbe

\* register(), first statement: this._scaffoldContainer()
RegisterScaffoldContainer ==
    /\ pc = "new"
    /\ pc' = "scaffoldBot"
    /\ UNCHANGED <<middleware, transformers, errorHandler, registered,
                   registerError, loop, healthLog, me, runResult, lastCall>>
    /\ UNCHANGED containerVars
    /\ UNCHANGED runVars
    /\ UNCHANGED sideVars
    /\ UNCHANGED inboundVars

\* _scaffoldBot, statement by statement: filter(...).use(limit(...)), then
\* api.deleteWebhook (issued through the transformers installed so far, its
\* promise is dropped), then the two api.config.use, then bot.catch.
scaffoldBotRetryFirst(mw, tr, script) ==
    LET mw1  == Append(mw, FilterStage)
        call == CallApi(tr, "deleteWebhook", script)
        tr1  == Append(tr, "autoRetry")
        tr2  == Append(tr1, "apiThrottler")
    IN [middleware |-> mw1, call |-> call, transformers |-> tr2,
        errorHandler |-> "handleError"]
scaffoldBot(mw, tr, script) ==
    LET mw1  == Append(mw, FilterStage)
        call == CallApi(tr, "deleteWebhook", script)
        tr1  == Append(tr, "apiThrottler")
        tr2  == Append(tr1, "autoRetry")
    IN [middleware |-> mw1, call |-> call, transformers |-> tr2,
        errorHandler |-> "handleError"]

RegisterScaffoldBot ==
    /\ pc = "scaffoldBot"
    /\ \E script \in MainScripts :
        LET r == scaffoldBot(middleware, transformers, script)
        IN /\ middleware' = r.middleware
           /\ lastCall' = r.call
           /\ transformers' = r.transformers
           /\ errorHandler' = r.errorHandler
    /\ pc' = "controllers"
    /\ UNCHANGED <<registered, registerError, loop, healthLog, me, runResult>>
    /\ UNCHANGED containerVars
    /\ UNCHANGED runVars
    /\ UNCHANGED sideVars
    /\ UNCHANGED inboundVars

\* The controller register() invokes after those in `done`.
NextController(done) == ControllerOrder[Len(done) + 1]

\* A controller's register() attaches its handlers to the bot it was given:
\* they come after everything installed on the bot before.
AttachHandlersFirst(mw, c) == <<HandlerStage(c)>> \o mw
AttachHandlers(mw, c) == Append(mw, HandlerStage(c))

\* What register() does when a controller's register() threw: nothing is
\* caught, the error leaves register().
AfterThrowSwallowed(c) == [pc |-> "controllers", error |-> None]
AfterThrow(c) == [pc |-> "failed", error |-> c]

\* register(), one this._container.cradle.<controller>.register() statement:
\* the cradle resolves the controller (its constructor may throw), then the
\* controller attaches its handlers to the bot, or throws.
RegisterController ==
    /\ pc = "controllers"
    /\ Len(registered) < Len(ControllerOrder)
    /\ LET c == NextController(registered)
       IN \E ctorThrows \in BOOLEAN :
            LET r == resolve(cache, built, c, ctorThrows)
            IN /\ cache' = r.cache
               /\ built' = r.built
               /\ lastResolve' = r.result
               /\ resolutions' = IF r.result.ok
                                 THEN [resolutions EXCEPT ![c] = @ + 1]
                                 ELSE resolutions
               /\ \E throws \in (IF r.result.ok THEN BOOLEAN ELSE {FALSE}) :
                    /\ registered' =
                          IF r.result.ok
                          THEN Append(registered,
                                      [name |-> c, threw |-> throws])
                          ELSE registered
                    /\ IF throws \/ ~r.result.ok
                       THEN /\ pc' = AfterThrow(c).pc
                            /\ registerError' = AfterThrow(c).error
                            /\ UNCHANGED middleware
                       ELSE /\ pc' = IF Len(registered') = Len(ControllerOrder)
                                     THEN "registered" ELSE "controllers"
                            /\ middleware' = AttachHandlers(middleware, c)
                            /\ UNCHANGED registerError
    /\ UNCHANGED <<transformers, errorHandler, loop, healthLog, me, runResult,
                   lastCall>>
    /\ UNCHANGED runVars
    /\ UNCHANGED sideVars
    /\ UNCHANGED inboundVars

\* The entry point calls run() once, after register() has returned.
CallerRunsEarly == pc \in {"controllers", "registered"} /\ loop = "idle"
CallerMayRun == pc = "registered" /\ loop = "idle"

\* What run() does with the report of handle.isRunning(): it only logs.
HealthLog(isRunning) == IF isRunning THEN "success" ELSE "error"

\* Where run() goes after the log line: on to the identity lookup, whatever
\* isRunning() reported.
AfterHealthCheckGate(isRunning) ==
    IF isRunning THEN [pc |-> "getMe", result |-> None]
    ELSE [pc |-> "runFailed", result |-> "rejected"]
AfterHealthCheck(isRunning) == [pc |-> "getMe", result |-> None]

\* run() up to its await: run(this._bot), the isRunning() log line, getMe issued.
RunStart ==
    /\ CallerMayRun
    /\ \E isRunning \in BOOLEAN :
        /\ loop' = IF isRunning THEN "running" ELSE "stopped"
        /\ healthLog' = HealthLog(isRunning)
        /\ pc' = AfterHealthCheck(isRunning).pc
        /\ runResult' = AfterHealthCheck(isRunning).result
    /\ getMeCalls' = IF pc' = "getMe" THEN getMeCalls + 1 ELSE getMeCalls
    /\ UNCHANGED <<middleware, transformers, errorHandler, registered,
                   registerError, me, lastCall>>
    /\ UNCHANGED containerVars
    /\ UNCHANGED sideVars
    /\ UNCHANGED inboundVars

\* run() after the await: this._me is set and the handle returned, or the
\* failure of getMe rejects run().
runAfterAwaitNoStore(call, old) ==
    IF call.ok
    THEN [me |-> old, result |-> "handle", pc |-> "running"]
    ELSE [me |-> old, result |-> "rejected", pc |-> "runFailed"]
runAfterAwaitSwallow(call, old) ==
    IF call.ok
    THEN [me |-> Identity, result |-> "handle", pc |-> "running"]
    ELSE [me |-> old, result |-> "handle", pc |-> "running"]
runAfterAwait(call, old) ==
    IF call.ok
    THEN [me |-> Identity, result |-> "handle", pc |-> "running"]
    ELSE [me |-> old, result |-> "rejected", pc |-> "runFailed"]

RunGetMe ==
    /\ pc = "getMe"
    /\ \E script \in MainScripts :
        LET call == CallApi(transformers, "getMe", script)
            r    == runAfterAwait(call, me)
        IN /\ lastCall' = call
           /\ me' = r.me
           /\ runResult' = r.result
           /\ pc' = r.pc
    /\ UNCHANGED <<middleware, transformers, errorHandler, registered,
                   registerError, loop, healthLog>>
    /\ UNCHANGED containerVars
    /\ UNCHANGED runVars
    /\ UNCHANGED sideVars
    /\ UNCHANGED inboundVars

\* The times of s that lie less than timeFrame before t.
Recent(s, t) == SelectSeq(s, LAMBDA x : t - x < timeFrame)

\* One more eligible update in the window, admitted when the limiter called
\* next().
Tally(w, decision) ==
    [seen     |-> w.seen + 1,
     admitted |-> w.admitted + (IF decision = "next" THEN 1 ELSE 0)]

\* The latest n elements of a sequence.
LastN(s, n) == IF Len(s) <= n THEN s ELSE SubSeq(s, Len(s) - n + 1, Len(s))

\* The runner hands one update to bot.handleUpdate: middleware chain, feature
\* handlers, and the error handler for whatever was thrown.  Inputs: the
\* update, whether a feature handler throws, what the API answers to the
\* rate-limit notice.
HandleUpdate(updates, maxUpdates) ==
    /\ loop = "running"
    /\ nUpdates < maxUpdates
    /\ \E u \in updates :
        LET k     == keyGenerator(u)
            w     == Walk(middleware, 1, u, hits)
            first == w.counted /\ hits[k] = 0
            out   == IF w.decision = "exceeded" THEN onLimitExceeded(u)
                     ELSE [warn |-> <<>>, reply |-> <<>>]
        IN \E throws \in (IF w.delivered # {} THEN BOOLEAN ELSE {FALSE}),
              script \in (IF out.reply # <<>> THEN MainScripts ELSE {OkScript}) :
            LET call == CallApi(transformers, "sendMessage", script)
                err  == IF out.reply # <<>> /\ ~call.ok THEN "reply"
                        ELSE IF throws THEN "handler"
                        ELSE None
                eo   == ErrorOutcome(errorHandler, err)
            IN /\ hits' = w.hits
               /\ timer' = IF first THEN [timer EXCEPT ![k] = TRUE] ELSE timer
               /\ winStart' = IF first THEN [winStart EXCEPT ![k] = now]
                              ELSE winStart
               /\ admits' = IF w.counted /\ w.decision = "next"
                            THEN [admits EXCEPT
                                    ![k] = LastN(Append(@, now), limit + 1)]
                            ELSE admits
               /\ win' = IF w.counted
                         THEN [win EXCEPT
                                 ![k] = Tally(IF first THEN NoWindow ELSE @,
                                              w.decision)]
                         ELSE win
               /\ lastCall' = IF out.reply # <<>> THEN call ELSE lastCall
               /\ hadError' = (hadError \/ err # None)
               /\ loop' = IF err # None /\ eo.rethrown THEN "stopped" ELSE loop
               /\ last' = [seen        |-> TRUE,
                           update      |-> u,
                           counted     |-> w.counted,
                           decision    |-> w.decision,
                           pre         |-> IF w.counted THEN hits[k] ELSE 0,
                           before      |-> IF w.counted THEN win[k]
                                           ELSE NoWindow,
                           elapsed     |-> IF w.counted /\ winStart[k] >= 0
                                           THEN now - winStart[k] ELSE -1,
                           delivered   |-> w.delivered,
                           warns       |-> out.warn,
                           replies     |-> out.reply,
                           error       |-> err,
                           errorLogged |-> (err # None /\ eo.logged)]
    /\ nUpdates' = nUpdates + 1
    /\ UNCHANGED <<pc, middleware, transformers, errorHandler, registered,
                   registerError, healthLog, me, runResult, now>>
    /\ UNCHANGED containerVars
    /\ UNCHANGED runVars
    /\ UNCHANGED sideVars

ProcessUpdate == HandleUpdate(Updates, MaxUpdates)

\* The same while register() and run() are followed step by step.
EarlyUpdate == HandleUpdate(Updates \cup OtherUpdates, MaxEarlyUpdates)

\* The reset timer of key k fires timeFrame after the window started.
Expire ==
    \E k \in Keys :
        /\ timer[k]
        /\ now - winStart[k] >= timeFrame
        /\ hits' = Reset(hits, k)
        /\ timer' = [timer EXCEPT ![k] = FALSE]
        /\ UNCHANGED <<now, winStart, admits, win, nUpdates, hadError, last,
                       lastCall>>
        /\ UNCHANGED lifecycleVars
        /\ UNCHANGED containerVars
        /\ UNCHANGED runVars
        /\ UNCHANGED sideVars

\* Time passes.  A timer that falls due before the new instant fires on the
\* way; one due exactly at the new instant races with the updates arriving
\* at that instant (Expire).
Tick ==
    /\ now + TimeStep <= MaxTime
    /\ now' = now + TimeStep
    /\ LET due == {k \in Keys : timer[k] /\ now' - winStart[k] > timeFrame}
       IN /\ hits' = [k \in Keys |->
                        IF k \in due THEN Reset(hits, k)[k] ELSE hits[k]]
          /\ timer' = [k \in Keys |-> timer[k] /\ k \notin due]
    /\ admits' = [k \in Keys |-> Recent(admits[k], now')]
    /\ UNCHANGED <<winStart, win, nUpdates, hadError, last, lastCall>>
    /\ UNCHANGED lifecycleVars
    /\ UNCHANGED containerVars
    /\ UNCHANGED runVars
    /\ UNCHANGED sideVars

\* Construction, register(), run() and the first updates.
Next ==
    \/ RegisterScaffoldContainer
    \/ RegisterScaffoldBot
    \/ RegisterController
    \/ RunStart
    \/ RunGetMe
    \/ EarlyUpdate

Spec == Init /\ [][Next]_vars

\* register() and run() step by step, then the updates of one key.
NextWiring ==
    \/ RegisterScaffoldContainer
    \/ RegisterScaffoldBot
    \/ RegisterController
    \/ RunStart
    \/ RunGetMe
    \/ ProcessUpdate

SpecWiring == Init /\ [][NextWiring]_vars

\* The state after register() and run() have completed without error.
Wired == scaffoldBot(<<>>, <<>>, OkScript)

InitRunning ==
    /\ pc = "running"
    /\ middleware = Wired.middleware
                    \o [i \in 1..Len(ControllerOrder) |->
                          HandlerStage(ControllerOrder[i])]
    /\ transformers = Wired.transformers
    /\ errorHandler = Wired.errorHandler
    /\ registered = [i \in 1..Len(ControllerOrder) |->
                       [name |-> ControllerOrder[i], threw |-> FALSE]]
    /\ registerError = None
    /\ loop = "running"
    /\ healthLog = HealthLog(TRUE)
    /\ me = Identity
    /\ runResult = "handle"
    /\ now = 0
    /\ hits = [k \in Keys |-> 0]
    /\ timer = [k \in Keys |-> FALSE]
    /\ winStart = [k \in Keys |-> -1]
    /\ admits = [k \in Keys |-> <<>>]
    /\ win = [k \in Keys |-> NoWindow]
    /\ nUpdates = 0
    /\ hadError = FALSE
    /\ last = NoUpdate
    /\ lastCall = CallApi(Wired.transformers, "getMe", OkScript)
    /\ cache = [n \in Singletons |-> 1]
    /\ built = [n \in Singletons |-> 1]
    /\ resolutions = [n \in Singletons |-> 1]
    /\ lastResolve = [name |-> ControllerOrder[Len(ControllerOrder)],
                      ok |-> TRUE, instance |-> 1]
    /\ getMeCalls = 1
    /\ tasks = [i \in 1..MaxInFlight |-> NoTask]
    /\ probe = NoProbe

\* Any code holding the cradle reads a controller from it, once more.
ResolveController ==
    /\ pc = "scaffoldBot"
    /\ \E n \in Singletons :
        /\ resolutions[n] + built[n] < MaxResolves
        /\ \E ctorThrows \in (IF cache[n] # 0 THEN {FALSE} ELSE BOOLEAN) :
            LET r == resolve(cache, built, n, ctorThrows)
            IN /\ cache' = r.cache
               /\ built' = r.built
               /\ lastResolve' = r.result
               /\ resolutions' = IF r.result.ok
                                 THEN [resolutions EXCEPT ![n] = @ + 1]
                                 ELSE resolutions
    /\ UNCHANGED lifecycleVars
    /\ UNCHANGED runVars
    /\ UNCHANGED sideVars
    /\ UNCHANGED inboundVars
    /\ UNCHANGED lastCall

\* The container from its construction on, read any number of times.
NextContainer ==
    \/ RegisterScaffoldContainer
    \/ ResolveController

SpecContainer == Init /\ [][NextContainer]_vars

\* The running bot: updates, the limiter's timers, the clock.
NextInbound ==
    \/ ProcessUpdate
    \/ Expire
    \/ Tick

SpecInbound == InitRunning /\ [][NextInbound]_vars

\* Any bot.api call issued by a handler of the running bot.
OutboundCall ==
    /\ loop = "running"
    /\ \E m \in Methods, script \in Scripts :
        lastCall' = CallApi(transformers, m, script)
    /\ UNCHANGED lifecycleVars
    /\ UNCHANGED containerVars
    /\ UNCHANGED runVars
    /\ UNCHANGED sideVars
    /\ UNCHANGED inboundVars

NextOutbound == OutboundCall

SpecOutbound == InitRunning /\ [][NextOutbound]_vars

\* The update the runner keeps receiving while earlier ones are in flight:
\* a command of user 1 in chat 1.
FlightUpdate == Msg(Id(1), Id(1), Str(Command), NoStr, {})
FlightKey == keyGenerator(FlightUpdate)

\* The store as the limiter's increment sees it.  No storage client is given,
\* so the limiter counts in its in-memory store, whose increment reads and
\* writes the counter in one synchronous call: it works on the store as it
\* is when the hit is counted, not as it was when the update was accepted.
StoreViewStale(h, k, snap) == [h EXCEPT ![k] = snap]
StoreView(h, k, snap) == h

\* The runner takes an update from the batch and starts handling it without
\* waiting for the updates accepted before it (it gets the first free slot).
Accept(i) ==
    /\ loop = "running"
    /\ tasks[i].st = "free"
    /\ \A j \in 1..(i - 1) : tasks[j].st # "free"
    /\ nUpdates < MaxFlights
    /\ tasks' = [tasks EXCEPT
                   ![i] = [st |-> "accepted", snap |-> hits[FlightKey],
                           n |-> 0]]
    /\ nUpdates' = nUpdates + 1
    /\ UNCHANGED <<now, hits, timer, winStart, admits, win, hadError, last,
                   lastCall, probe>>
    /\ UNCHANGED lifecycleVars
    /\ UNCHANGED containerVars
    /\ UNCHANGED runVars

\* bot.handleUpdate up to the limiter's first suspension: the filter, the
\* key, store.increment.
Count(i) ==
    /\ tasks[i].st = "accepted"
    /\ LET k == FlightKey
           w == Walk(middleware, 1, FlightUpdate,
                     StoreView(hits, k, tasks[i].snap))
           first == hits[k] = 0
       IN /\ hits' = w.hits
          /\ tasks' = [tasks EXCEPT
                         ![i] = [st |-> "counted", snap |-> 0,
                                 n |-> w.hits[k]]]
          /\ timer' = IF first THEN [timer EXCEPT ![k] = TRUE] ELSE timer
          /\ winStart' = IF first THEN [winStart EXCEPT ![k] = now]
                         ELSE winStart
          /\ win' = [win EXCEPT ![k].seen = @ + 1]
    /\ UNCHANGED <<now, admits, nUpdates, hadError, last, lastCall, probe>>
    /\ UNCHANGED lifecycleVars
    /\ UNCHANGED containerVars
    /\ UNCHANGED runVars

\* The limiter resumes with the count it got: next() and the handlers, the
\* rate-limit notice, or nothing.
Settle(i) ==
    /\ tasks[i].st = "counted"
    /\ LET d == Decide(tasks[i].n)
       IN /\ tasks' = [tasks EXCEPT
                         ![i] = IF d = "next" THEN [@ EXCEPT !.st = "handling"]
                                ELSE IF d = "exceeded"
                                THEN [@ EXCEPT !.st = "replying"]
                                ELSE NoTask]
          /\ win' = IF d = "next"
                    THEN [win EXCEPT ![FlightKey].admitted = @ + 1]
                    ELSE win
    /\ UNCHANGED <<now, hits, timer, winStart, admits, nUpdates, hadError,
                   last, lastCall, probe>>
    /\ UNCHANGED lifecycleVars
    /\ UNCHANGED containerVars
    /\ UNCHANGED runVars

\* A suspended handler, or the reply of the rate-limit notice, completes.
Finish(i) ==
    /\ tasks[i].st \in {"handling", "replying"}
    /\ tasks' = [tasks EXCEPT ![i] = NoTask]
    /\ UNCHANGED <<probe, lastCall>>
    /\ UNCHANGED lifecycleVars
    /\ UNCHANGED containerVars
    /\ UNCHANGED runVars
    /\ UNCHANGED inboundVars

\* Updates of one key in flight together, within one window.
NextConcurrent ==
    \E i \in 1..MaxInFlight :
        \/ Accept(i)
        \/ Count(i)
        \/ Settle(i)
        \/ Finish(i)

SpecConcurrent == InitRunning /\ [][NextConcurrent]_vars

\* Senders and chats the key is computed for: absent, users, a group chat
\* (negative id), with ids whose digits run into each other.
ProbeIds == {NoId, Id(1), Id(11), Id(111), Id(-1), Id(-11)}
Contexts ==
    {Msg(f, c, t, NoStr, {}) :
        f \in ProbeIds, c \in ProbeIds, t \in {NoStr, Str(Command)}}

\* keyGenerator applied to two contexts.
ProbeKeys ==
    /\ nUpdates = 0
    /\ probe = NoProbe
    /\ \E a \in Contexts, b \in Contexts :
        probe' = [a |-> a, b |-> b,
                  ka |-> keyGenerator(a), kb |-> keyGenerator(b)]
    /\ UNCHANGED tasks
    /\ UNCHANGED lifecycleVars
    /\ UNCHANGED containerVars
    /\ UNCHANGED runVars
    /\ UNCHANGED inboundVars
    /\ UNCHANGED lastCall

\* Eligible updates of two pairs: user 1 in chat 1, user 1 without a chat.
KeyedUpdates ==
    { Msg(Id(1), Id(1), Str(Command), NoStr, {}),
      Callback(Id(1), NoId, Str(<<"x">>)) }

KeyedUpdate ==
    /\ probe = NoProbe
    /\ HandleUpdate(KeyedUpdates, MaxKeyedUpdates)

\* Keys computed, and the updates of two keys in one window.
NextKeys ==
    \/ ProbeKeys
    \/ KeyedUpdate

SpecKeys == InitRunning /\ [][NextKeys]_vars

-----------------------------------------------------------------------------
(* Properties of the inbound pipeline, checked under SpecInbound *)

Min(a, b) == IF a <= b THEN a ELSE b

\* The update just handled failed all four admission predicates.
AllPredicatesFalse(u) ==
    /\ ~(u.text.def /\ Len(u.text.val) > 0 /\ Head(u.text.val) = "/")
    /\ ~(u.replyText.def /\ Len(u.replyText.val) > 0
         /\ Head(u.replyText.val) = "/")
    /\ ~(u.data.def /\ Len(u.data.val) > 0)
    /\ "hashtag" \notin u.entities

AllHandlers == {ControllerOrder[i] : i \in 1..Len(ControllerOrder)}

\* C1 as stated: no interval shorter than timeFrame (2000) ever contains more
\* than limit (5) admitted eligible updates of one key.
C1_NoIntervalOverLimit ==
    \A k \in Keys : Len(admits[k]) <= limit

\* C1 amended: within one rate-limit window of a key (from the first eligible
\* update after a reset until the reset timer fires) exactly the first 5
\* eligible updates are admitted and every later one is rejected.
C1_FirstFivePerWindow ==
    /\ \A k \in Keys : win[k].admitted = Min(win[k].seen, limit)
    /\ (last.seen /\ last.counted) =>
          /\ (last.decision = "next") = (last.pre < limit)
          /\ (last.decision = "next") = (last.delivered = AllHandlers)
          /\ (last.decision # "next") = (last.delivered = {})

C1_Witness ==
    \E k \in Keys : win[k].seen > limit /\ win[k].admitted = limit

C3_IneligibleBypassesLimiter ==
    [][(nUpdates' = nUpdates + 1 /\ AllPredicatesFalse(last'.update)) =>
          /\ hits' = hits
          /\ win' = win
          /\ ~last'.counted
          /\ last'.decision = "bypass"
          /\ last'.delivered = AllHandlers
          /\ last'.warns = <<>> /\ last'.replies = <<>>]_vars

C3_Witness ==
    /\ last.seen /\ AllPredicatesFalse(last.update)
    /\ hits[keyGenerator(last.update)] > limit
    /\ last.delivered = AllHandlers

\* C4: once more than timeFrame (2000) has elapsed since the start of a key's
\* window the count has been reset, so the next eligible update of the key is
\* admitted even if that window had reached the limit.
C4_ResetAfterTimeFrame ==
    /\ \A k \in Keys : hits[k] > 0 => now - winStart[k] <= timeFrame
    /\ (last.seen /\ last.counted /\ last.elapsed > timeFrame) =>
          /\ last.pre = 0
          /\ last.decision = "next"
          /\ last.delivered = AllHandlers

C4_Witness ==
    /\ last.seen /\ last.counted /\ last.elapsed > timeFrame
    /\ last.before.seen > limit
    /\ last.decision = "next"

\* C7: an error raised while an update is processed (by a feature handler or
\* by the rate-limit notice) reaches the error handler, which logs it and
\* swallows it: the loop keeps running and later updates are processed.
C7_ErrorsLoggedAndSwallowed ==
    /\ loop = "running"
    /\ errorHandler = "handleError"
    /\ (last.seen /\ last.error # None) => last.errorLogged
    /\ (last.seen /\ last.replies # <<>> /\ ~lastCall.ok) =>
          last.error = "reply"

C7_Witness ==
    /\ hadError
    /\ last.seen /\ last.error = None /\ last.delivered = AllHandlers
    /\ loop = "running"

\* C15 as stated: a rejected eligible update leaves the count of its window
\* unchanged, the count is incremented only by admitted updates and so never
\* exceeds limit (5).
C15_CountNeverOverLimit ==
    /\ \A k \in Keys : hits[k] <= limit
    /\ (last.seen /\ last.counted /\ last.decision # "next") =>
          hits[keyGenerator(last.update)] = last.pre

\* C15 amended: every eligible update, admitted or rejected, increments the
\* count of its window by one, so the count is the number of eligible updates
\* of the window and exceeds 5 as soon as one is rejected; an update is
\* admitted exactly when the count it produced is at most 5.
C15_EveryEligibleUpdateCounted ==
    /\ [](/\ \A k \in Keys : hits[k] > 0 => hits[k] = win[k].seen
          /\ (last.seen /\ last.counted) =>
                (last.decision = "next") = (last.pre + 1 <= limit))
    /\ [][(nUpdates' = nUpdates + 1 /\ last'.counted) =>
            LET k == keyGenerator(last'.update)
            IN /\ hits'[k] = hits[k] + 1
               /\ last'.pre = hits[k]
               /\ \A o \in Keys \ {k} : hits'[o] = hits[o]]_vars

C15_Witness ==
    /\ last.seen /\ last.counted
    /\ last.decision = "dropped"
    /\ last.pre = limit + 1
    /\ hits[keyGenerator(last.update)] = limit + 2

-----------------------------------------------------------------------------
(* Properties of register(), checked under Spec *)

IsPrefix(a, b) == Len(a) <= Len(b) /\ a = SubSeq(b, 1, Len(a))

\* The controllers whose register() was invoked, in order.
Invoked == [i \in 1..Len(registered) |-> registered[i].name]

FullStack == <<"apiThrottler", "autoRetry">>

\* C5: register() invokes the controllers' register() in the declared order
\* chats, neuro, random, each after the previous one returned; when one
\* throws, no later controller is invoked and the error leaves register().
C5_RegisterInOrderStopAtThrow ==
    /\ [](/\ IsPrefix(Invoked, ControllerOrder)
          /\ (pc \in {"new", "scaffoldBot"} => registered = <<>>)
          /\ \A i \in 1..Len(registered) :
                registered[i].threw =>
                    /\ i = Len(registered)
                    /\ pc = "failed"
                    /\ registerError = registered[i].name
                    /\ loop = "idle" /\ runResult = None
          /\ (pc = "failed" =>
                \/ registered # <<>> /\ registered[Len(registered)].threw
                \/ /\ ~lastResolve.ok
                   /\ lastResolve.name = NextController(registered)
                   /\ registerError = lastResolve.name)
          /\ (pc = "registered" => Invoked = ControllerOrder))
    /\ [][/\ Len(registered') <= Len(registered) + 1
          /\ (pc = "failed" => registered' = registered /\ pc' = pc)]_vars

C5_Witness ==
    /\ pc = "failed"
    /\ registerError = "chatsController"
    /\ Invoked = <<"chatsController">>

\* C6: every outgoing call to the messaging API, the webhook-cleanup call of
\* register() included, passes through the outbound pipeline: throttler and
\* retry are both applied to it.
C6_EveryCallThroughPipeline ==
    lastCall.method # None =>
        /\ lastCall.stack = FullStack
        /\ \A i \in 1..Len(lastCall.attempts) : lastCall.attempts[i]

-----------------------------------------------------------------------------
(* Properties of the outbound pipeline, checked under SpecOutbound *)

\* A failure the claims call transient: the API asks to retry after a wait
\* that the retry stage accepts.
Transient(res) == ~res.ok /\ res.retry_after \in 1..maxDelaySeconds

\* C8: at most 2 retries follow the original attempt; a call failing
\* transiently twice and then succeeding returns the success, a call failing
\* transiently 3 times propagates the last failure without a fourth attempt.
C8_AtMostTwoRetries ==
    LET c == lastCall IN
    /\ Len(c.attempts) <= maxRetryAttempts + 1
    /\ Len(c.waits) = Len(c.attempts) - 1
    /\ (Transient(c.script[1]) /\ Transient(c.script[2]) /\ c.script[3].ok) =>
          (c.ok /\ c.res = c.script[3] /\ Len(c.attempts) = 3)
    /\ (Transient(c.script[1]) /\ Transient(c.script[2])
        /\ Transient(c.script[3])) =>
          (~c.ok /\ c.res = c.script[3] /\ Len(c.attempts) = 3)

C8_Witness ==
    /\ Transient(lastCall.script[1]) /\ Transient(lastCall.script[2])
    /\ lastCall.script[3].ok
    /\ lastCall.ok /\ Len(lastCall.attempts) = 3

C10_PermanentFailureNotRetried ==
    LET c == lastCall IN
    (~c.script[1].ok /\ ~Transient(c.script[1])) =>
        /\ Len(c.attempts) = 1
        /\ c.waits = <<>>
        /\ ~c.ok
        /\ c.res = c.script[1]

C10_Witness ==
    /\ lastCall.method = "sendMessage"
    /\ ~lastCall.script[1].ok /\ lastCall.script[1].retry_after = 0
    /\ Len(lastCall.attempts) = 1 /\ ~lastCall.ok

\* C19: for the calls issued after register() has completed the retry stage
\* wraps the throttler: every attempt of a call, the original one and each
\* retry, passes through the throttler on its own.
C19_EveryAttemptThrottled ==
    LET c == lastCall IN
    /\ transformers = c.stack
    /\ c.stack # <<>> /\ c.stack[Len(c.stack)] = "autoRetry"
    /\ \E i \in 1..(Len(c.stack) - 1) : c.stack[i] = "apiThrottler"
    /\ \A a \in 1..Len(c.attempts) : c.attempts[a] = TRUE

C19_Witness ==
    /\ lastCall.method = "sendMessage"
    /\ Len(lastCall.attempts) = maxRetryAttempts + 1
    /\ lastCall.waits = <<20, maxDelaySeconds>>
    /\ \A a \in 1..Len(lastCall.attempts) : lastCall.attempts[a] = TRUE

-----------------------------------------------------------------------------
(* Properties of the dependency container, checked under SpecContainer *)

\* C11: each singleton controller (neuroController, chatsController,
\* randomController) is constructed at most once in the lifetime of the
\* container: whatever was resolved before, a resolution of the name returns
\* the one cached instance, and the cached instance is never replaced.
C11_SingletonBuiltOnce ==
    /\ [](/\ \A n \in Singletons :
                /\ built[n] <= 1
                /\ cache[n] = built[n]
                /\ resolutions[n] > 0 => cache[n] = 1
          /\ lastResolve.ok =>
                /\ lastResolve.instance = 1
                /\ lastResolve.instance = cache[lastResolve.name])
    /\ [][\A n \in Singletons : cache[n] # 0 => cache'[n] = cache[n]]_vars

C11_Witness ==
    \E n \in Singletons :
        /\ resolutions[n] >= 3
        /\ built[n] = 1
        /\ lastResolve = [name |-> n, ok |-> TRUE, instance |-> 1]

-----------------------------------------------------------------------------
(* Properties of run(), checked under Spec *)

Started == pc \in {"getMe", "running", "runFailed"}

C17_HealthReportIsNoGate ==
    /\ [](/\ (Started => healthLog \in {"success", "error"})
          /\ (~Started => healthLog = None)
          /\ (healthLog = "success") = (loop = "running")
          /\ (healthLog = "error") = (loop = "stopped")
          /\ (Started => getMeCalls = 1))
    /\ [][/\ (healthLog # None => healthLog' = healthLog /\ loop' = loop)
          /\ (pc = "getMe" /\ pc' # pc =>
                /\ lastCall'.method = "getMe"
                /\ (pc' = "running") = lastCall'.ok
                /\ (pc' = "runFailed") = ~lastCall'.ok)]_vars

C17_Witness ==
    /\ healthLog = "error"
    /\ loop = "stopped"
    /\ runResult = "handle"
    /\ me = Identity

\* C20: run() returns the handle only after the identity lookup succeeded;
\* when the lookup fails run() fails with that error, returns no handle and
\* leaves this._me null, and the loop it started is not stopped.
C20_HandleOnlyAfterIdentity ==
    /\ [](/\ (pc = "getMe" => runResult = None)
          /\ (runResult = "handle" => pc = "running" /\ me = Identity)
          /\ (runResult = "rejected" => pc = "runFailed" /\ me = NoMe))
    /\ [][(pc = "getMe" /\ pc' # pc) =>
            /\ lastCall'.method = "getMe"
            /\ (runResult' = "handle") = lastCall'.ok
            /\ (runResult' = "rejected") = ~lastCall'.ok
            /\ loop' = loop]_vars

C20_Witness ==
    /\ runResult = "rejected"
    /\ pc = "runFailed"
    /\ loop = "running"
    /\ me = NoMe
    /\ nUpdates > 0

\* The lifecycle state of spec 4.4 the orchestrator is in.
Phase ==
    IF pc \in {"failed", "runFailed"} THEN "FAILED"
    ELSE IF pc \in {"new", "scaffoldBot", "controllers"} THEN "UNREGISTERED"
    ELSE IF pc = "registered" THEN "REGISTERED"
    ELSE "RUNNING"

\* C16: the lifecycle moves from UNREGISTERED to REGISTERED to RUNNING only
\* (or fails): the update loop is not started and no update is processed
\* before register() has completed, and once the loop was started no
\* container entry, pipeline stage or controller registration is created or
\* changed.
C16_ConstructionBeforeRun ==
    /\ []((loop # "idle" \/ nUpdates > 0) =>
            /\ Started
            /\ Invoked = ControllerOrder
            /\ registerError = None
            /\ Len(middleware) = 1 + Len(ControllerOrder)
            /\ transformers = FullStack
            /\ \A n \in Singletons : cache[n] = 1)
    /\ [][/\ (Phase' # Phase =>
                \/ Phase = "UNREGISTERED" /\ Phase' \in {"REGISTERED", "FAILED"}
                \/ Phase = "REGISTERED" /\ Phase' = "RUNNING"
                \/ Phase = "RUNNING" /\ Phase' = "FAILED")
          /\ (loop # "idle" =>
                /\ middleware' = middleware
                /\ transformers' = transformers
                /\ errorHandler' = errorHandler
                /\ registered' = registered
                /\ cache' = cache /\ built' = built)]_vars

C16_Witness ==
    /\ Phase = "RUNNING" /\ pc = "running"
    /\ loop = "running"
    /\ nUpdates > 0
    /\ Invoked = ControllerOrder

-----------------------------------------------------------------------------
(* Properties of updates in flight together, checked under SpecConcurrent *)

InStage(s) == {i \in 1..MaxInFlight : tasks[i].st \in s}

\* C13: however the steps of the in-flight updates of one key interleave, no
\* increment of the window count is lost (the count is the number of updates
\* counted, and no two updates get the same count), so at most 5 updates of
\* the key are admitted in one window.
C13_NoLostIncrement ==
    /\ hits[FlightKey] = win[FlightKey].seen
    /\ hits[FlightKey] = nUpdates - Cardinality(InStage({"accepted"}))
    /\ \A i, j \in InStage({"counted", "handling", "replying"}) :
          i # j => tasks[i].n # tasks[j].n
    /\ \A i \in InStage({"handling"}) : tasks[i].n <= limit
    /\ win[FlightKey].admitted <= limit
    /\ win[FlightKey].admitted
          + Cardinality({i \in InStage({"counted"}) : tasks[i].n <= limit})
       = Min(hits[FlightKey], limit)

C13_Witness ==
    /\ hits[FlightKey] = limit + 2
    /\ win[FlightKey].admitted = limit
    /\ \E i, j, l \in 1..MaxInFlight :
          /\ tasks[i].st = "handling"
          /\ tasks[j].st = "replying"
          /\ tasks[l].st = "counted" /\ tasks[l].n = limit + 2

-----------------------------------------------------------------------------
(* Properties of the wiring order, checked under SpecWiring *)

\* C14: register() installs the inbound pipeline, the outbound pipeline and
\* the error handler before the first controller's register(), so every
\* handler a controller attaches is downstream of the filter and the limiter:
\* for every update the filter is evaluated first, the limiter next (for the
\* updates the filter accepts), and a handler only when the limiter let the
\* update through.
C14_PipelinesBeforeControllers ==
    /\ (registered # <<>> \/ lastResolve.name # None) =>
          /\ middleware # <<>> /\ middleware[1] = FilterStage
          /\ transformers = FullStack
          /\ errorHandler = "handleError"
    /\ \A i \in 1..Len(middleware) :
          middleware[i].kind = "handler" =>
              \E j \in 1..(i - 1) : middleware[j] = FilterStage
    /\ last.seen =>
          /\ last.counted = ~AllPredicatesFalse(last.update)
          /\ (last.counted => (last.delivered # {}) = (last.decision = "next"))
          /\ (~last.counted => last.decision = "bypass")
          /\ (last.delivered # {} => last.delivered = AllHandlers)

C14_Witness ==
    /\ pc = "running"
    /\ Len(middleware) = 1 + Len(ControllerOrder)
    /\ last.seen /\ last.counted
    /\ last.decision = "exceeded"
    /\ last.delivered = {}

-----------------------------------------------------------------------------
(* Properties of the rate-limit key, checked under SpecKeys *)

\* C18: the rate-limit key depends on the user id and the chat id only and is
\* injective in that pair (an absent user or chat counting as one more
\* value): two updates get the same key exactly when they have the same user
\* and the same chat.  So the updates of one pair change neither the count nor
\* the admission of another pair.
C18_KeyInjective ==
    /\ []((probe.ka = probe.kb) =
            (probe.a.from = probe.b.from /\ probe.a.chat = probe.b.chat))
    /\ [][nUpdates' = nUpdates + 1 =>
            LET k == keyGenerator(last'.update)
            IN /\ \A o \in Keys \ {k} : hits'[o] = hits[o] /\ win'[o] = win[o]
               /\ (last'.decision = "next") = (hits[k] < limit)]_vars

C18_Witness ==
    /\ last.seen /\ last.decision = "next"
    /\ hits[keyGenerator(last.update)] = 1
    /\ \E o \in Keys : o # keyGenerator(last.update) /\ hits[o] > limit

====
